---- MODULE Spec2Model ----
(***************************************************************************)
(* Component reconciliation engine of the AI estimator:                    *)
(* ComponentMatcher (component_matcher.py) over the component library      *)
(* table kept by Database (database.py).                                   *)
(*                                                                         *)
(* Text values are sequences of one-character strings, so that case        *)
(* folding, punctuation removal, token sorting and the similarity ratio    *)
(* are computed character by character as the code and fuzzywuzzy do.      *)
(* Optional values are sequences of length 0 (None) or 1.                  *)
(***************************************************************************)
EXTENDS Integers, Sequences, FiniteSets, TLC

\* component_library, detected_components: the tables of the estimation schema
\* last: the record of the call in progress    matcher: the ComponentMatcher
\* cursor: the rows held by Database.cursor    threads: the call of each thread
\* sosopiac: the ERP table smbe.sosopiac
VARIABLES component_library, detected_components, last, matcher, cursor, threads,
          sosopiac

vars == <<component_library, detected_components, last, matcher, cursor, threads,
          sosopiac>>

(***************************************************************************)
(* Bounds of the model.                                                    *)
(***************************************************************************)
MaxCatalog == 3
MaxBatch == 2
MaxParts == 2
MaxDetections == 2
MaxErpRows == 3

(***************************************************************************)
(* Configuration (config.py).                                              *)
(***************************************************************************)
AUTO_MATCH_THRESHOLD == 85
REVIEW_THRESHOLD == 70

None == << >>
Some(x) == <<x>>

Unknown == <<"U", "n", "k", "n", "o", "w", "n">>

\* dict.get(key, default)
Get(d, key, default) == IF key \in DOMAIN d THEN d[key] ELSE default

(***************************************************************************)
(* Characters and Python string primitives.                                *)
(***************************************************************************)
Ord(c) ==
    CASE c = " " -> 32
      [] c = "-" -> 45
      [] c = "A" -> 65
      [] c = "B" -> 66
      [] c = "C" -> 67
      [] c = "a" -> 97
      [] c = "b" -> 98
      [] c = "c" -> 99
      [] c = "3" -> 51
      [] c = "6" -> 54
      [] c = "E" -> 69
      [] c = "G" -> 71
      [] c = "H" -> 72
      [] c = "I" -> 73
      [] c = "M" -> 77
      [] c = "P" -> 80
      [] c = "R" -> 82
      [] c = "S" -> 83
      [] c = "U" -> 85
      [] c = "V" -> 86
      [] c = "e" -> 101
      [] c = "i" -> 105
      [] c = "k" -> 107
      [] c = "n" -> 110
      [] c = "o" -> 111
      [] c = "s" -> 115
      [] c = "u" -> 117
      [] c = "w" -> 119

IsSpace(c) == c = " "

IsWordChar(c) == c \notin {" ", "-"}

LowerChar(c) ==
    CASE c = "A" -> "a"
      [] c = "B" -> "b"
      [] c = "C" -> "c"
      [] c = "E" -> "e"
      [] c = "I" -> "i"
      [] c = "S" -> "s"
      [] c = "U" -> "u"
      [] OTHER -> c

UpperChar(c) ==
    CASE c = "a" -> "A"
      [] c = "b" -> "B"
      [] c = "c" -> "C"
      [] c = "e" -> "E"
      [] c = "i" -> "I"
      [] c = "s" -> "S"
      [] OTHER -> c

\* str.upper()
Upper(s) == [i \in 1..Len(s) |-> UpperChar(s[i])]

IsDigit(c) == c \in {"0", "1", "2", "3", "4", "5", "6", "7", "8", "9"}

Lower(s) == [i \in 1..Len(s) |-> LowerChar(s[i])]

RECURSIVE LStrip(_)
LStrip(s) == IF s # << >> /\ IsSpace(Head(s)) THEN LStrip(Tail(s)) ELSE s

RECURSIVE RStrip(_)
RStrip(s) ==
    IF s # << >> /\ IsSpace(s[Len(s)]) THEN RStrip(SubSeq(s, 1, Len(s) - 1)) ELSE s

Strip(s) == RStrip(LStrip(s))

\* lexicographic comparison by code point (str.__lt__)
RECURSIVE StrLess(_, _)
StrLess(s, t) ==
    IF t = << >> THEN FALSE
    ELSE IF s = << >> THEN TRUE
    ELSE IF Ord(Head(s)) # Ord(Head(t)) THEN Ord(Head(s)) < Ord(Head(t))
    ELSE StrLess(Tail(s), Tail(t))

StrLeq(s, t) == s = t \/ StrLess(s, t)

\* str.split(): the maximal runs of non-whitespace characters
RECURSIVE SplitFrom(_, _, _)
SplitFrom(s, cur, acc) ==
    IF s = << >> THEN (IF cur = << >> THEN acc ELSE Append(acc, cur))
    ELSE IF IsSpace(Head(s))
         THEN SplitFrom(Tail(s), << >>, IF cur = << >> THEN acc ELSE Append(acc, cur))
         ELSE SplitFrom(Tail(s), Append(cur, Head(s)), acc)

Split(s) == SplitFrom(s, << >>, << >>)

\* " ".join(tokens)
RECURSIVE Join(_)
Join(tokens) ==
    IF tokens = << >> THEN << >>
    ELSE IF Len(tokens) = 1 THEN tokens[1]
    ELSE tokens[1] \o <<" ">> \o Join(Tail(tokens))

\* sorted(tokens)
RECURSIVE InsertSorted(_, _)
InsertSorted(tok, sorted) ==
    IF sorted = << >> THEN <<tok>>
    ELSE IF StrLess(tok, Head(sorted)) THEN <<tok>> \o sorted
    ELSE <<Head(sorted)>> \o InsertSorted(tok, Tail(sorted))

RECURSIVE Sorted(_)
Sorted(tokens) ==
    IF tokens = << >> THEN << >>
    ELSE InsertSorted(tokens[Len(tokens)], Sorted(SubSeq(tokens, 1, Len(tokens) - 1)))

(***************************************************************************)
(* fuzzywuzzy, as used through process.extractOne / process.extract with   *)
(* scorer=fuzz.token_sort_ratio and the default processor. The sequence    *)
(* matcher is difflib.SequenceMatcher, which fuzzywuzzy uses when the      *)
(* optional python-Levenshtein package is not installed.                   *)
(***************************************************************************)

\* utils.full_process: every non-word character becomes a blank, the text is
\* lower-cased and stripped
full_process(s) ==
    Strip(Lower([i \in 1..Len(s) |-> IF IsWordChar(s[i]) THEN s[i] ELSE " "]))

\* fuzz._process_and_sort with full_process=False
process_and_sort(s) == Strip(Join(Sorted(Split(s))))

\* length of the common run of a from i and b from j
RECURSIVE CommonLen(_, _, _, _)
CommonLen(a, i, b, j) ==
    IF i > Len(a) \/ j > Len(b) THEN 0
    ELSE IF a[i] # b[j] THEN 0
    ELSE 1 + CommonLen(a, i + 1, b, j + 1)

\* SequenceMatcher.find_longest_match over non-empty a and b: the longest common
\* block <<i, j, k>>; of those the one starting earliest in a, and of those the
\* one starting earliest in b (<<1, 1, 0>> when no character is common)
find_longest_match(a, b) ==
    LET blocks == {<<i, j, CommonLen(a, i, b, j)>> : i \in 1..Len(a), j \in 1..Len(b)}
        size == CHOOSE k \in {m[3] : m \in blocks} : \A m \in blocks : m[3] <= k
        longest == {m \in blocks : m[3] = size}
    IN  CHOOSE m \in longest :
            \A n \in longest : m[1] < n[1] \/ (m[1] = n[1] /\ m[2] <= n[2])

\* SequenceMatcher.get_matching_blocks, summed: the number of matched characters
RECURSIVE matching_chars(_, _)
matching_chars(a, b) ==
    IF a = << >> \/ b = << >> THEN 0
    ELSE LET m == find_longest_match(a, b)
         IN  IF m[3] = 0 THEN 0
             ELSE m[3]
                  + matching_chars(SubSeq(a, 1, m[1] - 1), SubSeq(b, 1, m[2] - 1))
                  + matching_chars(SubSeq(a, m[1] + m[3], Len(a)),
                                   SubSeq(b, m[2] + m[3], Len(b)))

\* utils.intr(100 * 2.0 * M / T): round() rounds halves to the even integer
intr(num, den) ==
    LET q == num \div den
        r == num % den
    IN  IF 2 * r < den THEN q
        ELSE IF 2 * r > den THEN q + 1
        ELSE q + (q % 2)

\* fuzz.ratio with its decorators: check_for_equivalence, then check_empty_string
ratio(s1, s2) ==
    IF s1 = s2 THEN 100
    ELSE IF Len(s1) = 0 \/ Len(s2) = 0 THEN 0
    ELSE intr(200 * matching_chars(s1, s2), Len(s1) + Len(s2))

\* fuzz.token_sort_ratio(s1, s2, full_process=False)
token_sort_ratio(s1, s2) == ratio(process_and_sort(s1), process_and_sort(s2))

\* the loop of extractWithoutOrder: every choice is processed and scored against
\* the processed query; score_cutoff is 0, so every pair is kept
RECURSIVE ScoreChoices(_, _)
ScoreChoices(processed_query, choices) ==
    IF choices = << >> THEN << >>
    ELSE <<<<Head(choices), token_sort_ratio(processed_query, full_process(Head(choices)))>>>>
         \o ScoreChoices(processed_query, Tail(choices))

\* process.extractWithoutOrder(query, choices): the query is processed once
\* by the default processor and once more for the scorer
extractWithoutOrder(query, choices) ==
    ScoreChoices(full_process(full_process(query)), choices)

\* max(best_list, key=score): the first element with the greatest score
RECURSIVE MaxFrom(_, _)
MaxFrom(best, rest) ==
    IF rest = << >> THEN best
    ELSE MaxFrom(IF Head(rest)[2] > best[2] THEN Head(rest) ELSE best, Tail(rest))

FirstMax(sl) == MaxFrom(Head(sl), Tail(sl))

\* extractOne returning the first choice instead of the best-scoring one
extractOne_first_choice(query, choices) ==
    IF choices = << >> THEN None ELSE Some(extractWithoutOrder(query, choices)[1])

\* process.extractOne: None for no choices
extractOne(query, choices) ==
    IF choices = << >> THEN None ELSE Some(FirstMax(extractWithoutOrder(query, choices)))

\* sorted(sl, key=score, reverse=True): stable, greatest score first
RECURSIVE InsertByScore(_, _)
InsertByScore(x, sorted) ==
    IF sorted = << >> THEN <<x>>
    ELSE IF x[2] > Head(sorted)[2] THEN <<x>> \o sorted
    ELSE <<Head(sorted)>> \o InsertByScore(x, Tail(sorted))

RECURSIVE SortedByScore(_)
SortedByScore(sl) ==
    IF sl = << >> THEN << >>
    ELSE InsertByScore(sl[Len(sl)], SortedByScore(SubSeq(sl, 1, Len(sl) - 1)))

Take(s, n) == IF n <= 0 THEN << >> ELSE SubSeq(s, 1, IF n < Len(s) THEN n ELSE Len(s))

\* the limit lowest scores, lowest first
extract_lowest_first(query, choices, limit) ==
    LET sorted == SortedByScore(extractWithoutOrder(query, choices))
    IN  Take([i \in 1..Len(sorted) |-> sorted[Len(sorted) + 1 - i]], limit)

\* process.extract: heapq.nlargest(limit, sl, key=score), which is
\* sorted(sl, key=score, reverse=True)[:limit] and empty for limit <= 0
extract(query, choices, limit) ==
    Take(SortedByScore(extractWithoutOrder(query, choices)), limit)

(***************************************************************************)
(* Database: the estimation.component_library table (database.py).         *)
(* A row is [component_id, itemname, manufacturer, model_number, itclass,  *)
(* is_active, created_date]; component_library lists the rows in insertion *)
(* order. component_id is the serial key, is_active and created_date take  *)
(* their column defaults (TRUE, the time of the insert).                   *)
(***************************************************************************)

\* the sequences listing every element of the set rows once, in an order that
\* the relation before allows: ORDER BY leaves rows with equal keys in any order
RECURSIVE OrderBy(_, _)
OrderBy(rows, before) ==
    IF rows = {} THEN {<< >>}
    ELSE LET first == {r \in rows : \A q \in rows : <<q, r>> \notin before}
         IN  UNION {{<<r>> \o s : s \in OrderBy(rows \ {r}, before)} : r \in first}

Rows == {component_library[i] : i \in 1..Len(component_library)}

\* text ILIKE '%term%'
RECURSIVE Contains(_, _)
Contains(text, term) ==
    IF Len(term) > Len(text) THEN FALSE
    ELSE IF SubSeq(text, 1, Len(term)) = term THEN TRUE
    ELSE Contains(Tail(text), term)

ILike(text, term) == Contains(Lower(text), Lower(term))

\* Database.search_components(search_term, itclass, limit); itclass is "" when
\* not given. fts is the set of rows whose search_vector matches the term:
\* the full-text index is maintained by the database, outside this code.
search_components(search_term, itclass, limit, fts) ==
    LET hits == {r \in Rows :
                    /\ itclass # "" => r.itclass = itclass
                    /\ \/ r \in fts
                       \/ ILike(r.itemname, search_term)
                       \/ ILike(r.manufacturer, search_term)
                       \/ ILike(r.model_number, search_term)
                    /\ r.is_active}
        newer == {p \in hits \X hits : p[1].created_date > p[2].created_date}
    IN  {Take(s, limit) : s \in OrderBy(hits, newer)}

\* Database.get_all_components(itclass): the active rows of the class (of every
\* class when itclass is empty), ORDER BY itemname
get_all_components(itclass) ==
    LET hits == IF itclass # ""
                THEN {r \in Rows : r.itclass = itclass /\ r.is_active}
                ELSE {r \in Rows : r.is_active}
        by_name == {p \in hits \X hits : StrLess(p[1].itemname, p[2].itemname)}
    IN  OrderBy(hits, by_name)

\* Database.add_component: the row inserted for component_data
add_component(component_data) ==
    [component_id  |-> Len(component_library) + 1,
     itemname      |-> component_data.itemname,
     manufacturer  |-> component_data.manufacturer,
     model_number  |-> component_data.model_number,
     itclass       |-> component_data.itclass,
     is_active     |-> TRUE,
     created_date  |-> Len(component_library) + 1]

(***************************************************************************)
(* Database: the estimation.detected_components table. A row is            *)
(* [detection_id, itemname, itclass, manufacturer, model_number,           *)
(* matched_component_id, match_score, match_method, match_status];         *)
(* detected_components lists the rows in insertion order. The columns an   *)
(* INSERT does not name take their defaults: NULL for the match columns    *)
(* and pending for match_status.                                           *)
(***************************************************************************)
DEFAULT_MATCH_STATUS == "pending"

\* Database.save_detected_component: the row inserted for component_data
save_detected_component(component_data) ==
    [detection_id         |-> Len(detected_components) + 1,
     itemname             |-> Get(component_data, "itemname", << >>),
     itclass              |-> Get(component_data, "itclass", "OTHER"),
     manufacturer         |-> Get(component_data, "manufacturer", Unknown),
     model_number         |-> Get(component_data, "model_number", Unknown),
     matched_component_id |-> None,
     match_score          |-> None,
     match_method         |-> None,
     match_status         |-> DEFAULT_MATCH_STATUS]

\* the CASE with the review branch first
match_status_review_first(match_score) ==
    IF match_score >= 70 THEN "review"
    ELSE IF match_score >= 85 THEN "matched"
    ELSE "pending"

\* update_detection_match: CASE WHEN %s >= 85 ... WHEN %s >= 70 ... ELSE ... END
match_status_case(match_score) ==
    IF match_score >= 85 THEN "matched"
    ELSE IF match_score >= 70 THEN "review"
    ELSE "pending"

\* the UPDATE without SET matched_component_id
update_detection_match_no_id(detection_id, component_id, match_score, match_method) ==
    [i \in 1..Len(detected_components) |->
        IF detected_components[i].detection_id = detection_id
        THEN [detected_components[i] EXCEPT
                 !.match_score  = Some(match_score),
                 !.match_method = Some(match_method),
                 !.match_status = match_status_case(match_score)]
        ELSE detected_components[i]]

\* Database.update_detection_match: the table after the UPDATE
update_detection_match(detection_id, component_id, match_score, match_method) ==
    [i \in 1..Len(detected_components) |->
        IF detected_components[i].detection_id = detection_id
        THEN [detected_components[i] EXCEPT
                 !.matched_component_id = Some(component_id),
                 !.match_score          = Some(match_score),
                 !.match_method         = Some(match_method),
                 !.match_status         = match_status_case(match_score)]
        ELSE detected_components[i]]

\* UPDATE ... SET match_status = 'matched' WHERE detection_id = %s
approve_match(detection_id) ==
    [i \in 1..Len(detected_components) |->
        IF detected_components[i].detection_id = detection_id
        THEN [detected_components[i] EXCEPT !.match_status = "matched"]
        ELSE detected_components[i]]

\* the rows of: WHERE match_status = 'review' AND match_score >= 85
auto_matched_in_review ==
    {i \in 1..Len(detected_components) :
        /\ detected_components[i].match_status = "review"
        /\ detected_components[i].match_score # None
        /\ detected_components[i].match_score[1] >= 85}

\* UPDATE ... SET match_status = 'matched' WHERE ... (Approve All Auto-Matched)
approve_all_auto_matched ==
    [i \in 1..Len(detected_components) |->
        IF i \in auto_matched_in_review
        THEN [detected_components[i] EXCEPT !.match_status = "matched"]
        ELSE detected_components[i]]

\* Database.get_detections_for_project(project_id, status): the rows of the
\* status, ORDER BY detection_id
RECURSIVE get_detections_for_project(_, _)
get_detections_for_project(rows, status) ==
    IF rows = << >> THEN << >>
    ELSE IF Head(rows).match_status = status
         THEN <<Head(rows)>> \o get_detections_for_project(Tail(rows), status)
         ELSE get_detections_for_project(Tail(rows), status)

\* SELECT * FROM component_library WHERE component_id = %s, fetchone(): no row
\* for NULL
component_by_id(component_id) ==
    IF component_id = None THEN None
    ELSE IF \E r \in Rows : r.component_id = component_id[1]
         THEN Some(CHOOSE r \in Rows : r.component_id = component_id[1])
         ELSE None

\* generate_bom, "Build BOM preview": one line for every matched detection
\* whose component is found
RECURSIVE bom_preview(_)
bom_preview(matched_detections) ==
    IF matched_detections = << >> THEN << >>
    ELSE LET detection == Head(matched_detections)
             component == component_by_id(detection.matched_component_id)
         IN  (IF component # None
              THEN <<[detection_id |-> detection.detection_id,
                      component_id |-> component[1].component_id]>>
              ELSE << >>)
             \o bom_preview(Tail(matched_detections))

(***************************************************************************)
(* The stock code parser of Database.import_stock_items_from_erp.          *)
(***************************************************************************)

\* str.split(sep) for a one-character separator: never an empty list
RECURSIVE SplitOnFrom(_, _, _, _)
SplitOnFrom(s, sep, cur, acc) ==
    IF s = << >> THEN Append(acc, cur)
    ELSE IF Head(s) = sep
         THEN SplitOnFrom(Tail(s), sep, << >>, Append(acc, cur))
         ELSE SplitOnFrom(Tail(s), sep, Append(cur, Head(s)), acc)

SplitOn(s, sep) == SplitOnFrom(s, sep, << >>, << >>)

OTHER_CLASS == <<"O", "T", "H", "E", "R">>

known_manufacturers ==
    << <<"S", "C", "H">>,
       <<"S", "C", "H", "N", "E", "I", "D", "E", "R">>,
       <<"A", "B", "B">>,
       <<"S", "I", "E">>,
       <<"S", "I", "E", "M", "E", "N", "S">>,
       <<"L", "E", "G">>,
       <<"L", "E", "G", "R", "A", "N", "D">>,
       <<"H", "A", "G">>,
       <<"H", "A", "G", "E", "R">>,
       <<"G", "E">>,
       <<"E", "A", "T", "O", "N">>,
       <<"L", "S">>,
       <<"M", "I", "T">>,
       <<"M", "I", "T", "S", "U", "B", "I", "S", "H", "I">> >>

\* the if/elif chain: the name stored when mfg is found in part
manufacturer_name(mfg, part) ==
    CASE mfg = <<"S", "C", "H">> -> <<"S", "c", "h", "n", "e", "i", "d", "e", "r">>
      [] mfg = <<"S", "I", "E">> -> <<"S", "i", "e", "m", "e", "n", "s">>
      [] mfg = <<"L", "E", "G">> -> <<"L", "e", "g", "r", "a", "n", "d">>
      [] mfg = <<"H", "A", "G">> -> <<"H", "a", "g", "e", "r">>
      [] mfg = <<"M", "I", "T">> -> <<"M", "i", "t", "s", "u", "b", "i", "s", "h", "i">>
      [] OTHER -> part

\* mfg in part.upper()
mfg_in_part(mfg, part) == Contains(Upper(part), mfg)

\* the inner loop over known_manufacturers for one part: the name set by the
\* first entry found in the part (then break), None when no entry is found
part_manufacturer(part) ==
    LET found == {n \in 1..Len(known_manufacturers) :
                     mfg_in_part(known_manufacturers[n], part)}
    IN  IF found = {} THEN None
        ELSE LET n == CHOOSE n \in found : \A k \in found : n <= k
             IN  Some(manufacturer_name(known_manufacturers[n], part))

\* the outer loop over the parts: break leaves only the inner loop, so every
\* part in which an entry is found assigns manufacturer again
RECURSIVE scan_manufacturer(_, _)
scan_manufacturer(parts, manufacturer) ==
    IF parts = << >> THEN manufacturer
    ELSE scan_manufacturer(Tail(parts),
                           IF part_manufacturer(Head(parts)) # None
                           THEN part_manufacturer(Head(parts))[1]
                           ELSE manufacturer)

\* the number of digits at the start of part
RECURSIVE LeadingDigits(_)
LeadingDigits(part) ==
    IF part # << >> /\ IsDigit(Head(part)) THEN 1 + LeadingDigits(Tail(part)) ELSE 0

\* re.fullmatch(r'\d+[letters]', part)
re_fullmatch_rating(part, letters) ==
    LET d == LeadingDigits(part)
    IN  d >= 1 /\ Len(part) = d + 1 /\ part[d + 1] \in letters

\* re.match(r'\d+[letters]', part): the pattern is matched at the start of
\* part, whatever follows it
re_match_rating(part, letters) ==
    LET d == LeadingDigits(part)
    IN  d >= 1 /\ Len(part) > d /\ part[d + 1] \in letters

\* the parts appended to ratings
RECURSIVE rating_parts(_)
rating_parts(parts) ==
    IF parts = << >> THEN << >>
    ELSE IF re_match_rating(Head(parts), {"A", "V"}) \/ re_match_rating(Head(parts), {"P"})
         THEN <<Head(parts)>> \o rating_parts(Tail(parts))
         ELSE rating_parts(Tail(parts))

\* the component attributes import_stock_items_from_erp derives from stkcode
normalize(stkcode) ==
    LET parts == SplitOn(stkcode, "-")
    IN  [itemname      |-> stkcode,
         itclass       |-> IF Len(parts) > 0 THEN parts[1] ELSE OTHER_CLASS,
         manufacturer  |-> scan_manufacturer(parts, Unknown),
         model_number  |-> stkcode,
         rating        |-> Join(rating_parts(parts)),
         supplier_code |-> stkcode]

(***************************************************************************)
(* Database.import_stock_items_from_erp. A row of smbe.sosopiac is         *)
(* [stkcode, unitprc, NDATE]; stkcode is None for NULL.                    *)
(***************************************************************************)

\* WHERE stkcode IS NOT NULL AND stkcode != '' AND unitprc IS NOT NULL
\* AND unitprc > 0
priced_rows ==
    {i \in 1..Len(sosopiac) :
        /\ sosopiac[i].stkcode # None
        /\ sosopiac[i].stkcode[1] # << >>
        /\ sosopiac[i].unitprc > 0}

\* MAX(NDATE) of the rows at the indices in group
max_ndate(group) ==
    CHOOSE d \in {sosopiac[i].NDATE : i \in group} :
        \A i \in group : sosopiac[i].NDATE <= d

\* GROUP BY stkcode: one row per stock code with COUNT(*) and MAX(NDATE)
stock_items ==
    {[stkcode     |-> code,
      usage_count |-> Cardinality({i \in priced_rows : sosopiac[i].stkcode[1] = code}),
      last_used   |-> max_ndate({i \in priced_rows : sosopiac[i].stkcode[1] = code})] :
        code \in {sosopiac[i].stkcode[1] : i \in priced_rows}}

\* the results the query can give: ORDER BY usage_count DESC, last_used DESC,
\* and LIMIT when a limit is given ("if limit:")
erp_query(limit) ==
    LET by_usage == {p \in stock_items \X stock_items :
                        \/ p[1].usage_count > p[2].usage_count
                        \/ /\ p[1].usage_count = p[2].usage_count
                           /\ p[1].last_used > p[2].last_used}
    IN  IF limit # None /\ limit[1] # 0
        THEN {Take(rows, limit[1]) : rows \in OrderBy(stock_items, by_usage)}
        ELSE OrderBy(stock_items, by_usage)

\* SELECT component_id ... WHERE supplier_code = %s AND is_active = TRUE LIMIT 1
existing(library, stkcode) ==
    \E i \in 1..Len(library) :
        /\ library[i].supplier_code = stkcode
        /\ library[i].is_active

\* the row add_component inserts for a stock item: the columns of
\* add_component with supplier_code and source
stock_item_row(library, stkcode) ==
    [component_id  |-> Len(library) + 1,
     itemname      |-> normalize(stkcode).itemname,
     manufacturer  |-> normalize(stkcode).manufacturer,
     model_number  |-> normalize(stkcode).model_number,
     itclass       |-> normalize(stkcode).itclass,
     is_active     |-> TRUE,
     created_date  |-> Len(library) + 1,
     supplier_code |-> normalize(stkcode).supplier_code,
     source        |-> "imported"]

\* the loop over the rows of the query: [library, imported] after it
RECURSIVE import_rows(_, _, _)
import_rows(rows, library, imported) ==
    IF rows = << >> THEN [library |-> library, imported |-> imported]
    ELSE IF ~existing(library, Head(rows).stkcode)
         THEN import_rows(Tail(rows),
                          Append(library, stock_item_row(library, Head(rows).stkcode)),
                          imported + 1)
         ELSE import_rows(Tail(rows), library, imported)

(***************************************************************************)
(* ComponentMatcher (component_matcher.py).                                *)
(***************************************************************************)

\* ComponentMatcher.__init__: the thresholds are copied from the configuration
ComponentMatcher(config) ==
    [auto_threshold   |-> config.AUTO_MATCH_THRESHOLD,
     review_threshold |-> config.REVIEW_THRESHOLD]

\* estimator_config = EstimatorConfig()
estimator_config ==
    [AUTO_MATCH_THRESHOLD |-> AUTO_MATCH_THRESHOLD,
     REVIEW_THRESHOLD     |-> REVIEW_THRESHOLD]

\* f"{itemname} {manufacturer} {model_number}".strip()
search_string(itemname, manufacturer, model_number) ==
    Strip(itemname \o <<" ">> \o manufacturer \o <<" ">> \o model_number)

detected_str(detected) ==
    search_string(Get(detected, "itemname", << >>),
                  Get(detected, "manufacturer", << >>),
                  Get(detected, "model_number", << >>))

candidate_str(candidate) ==
    search_string(candidate.itemname, candidate.manufacturer, candidate.model_number)

\* candidate_dict.keys(): the distinct candidate strings, in first-insertion order
RECURSIVE candidate_keys(_)
candidate_keys(candidates) ==
    IF candidates = << >> THEN << >>
    ELSE LET front == SubSeq(candidates, 1, Len(candidates) - 1)
             str == candidate_str(candidates[Len(candidates)])
         IN  IF \E i \in 1..Len(front) : candidate_str(front[i]) = str
             THEN candidate_keys(front)
             ELSE Append(candidate_keys(front), str)

\* candidate_dict[match_str]: the candidate assigned last to that key
candidate_dict(candidates, match_str) ==
    LET n == CHOOSE i \in 1..Len(candidates) :
                 /\ candidate_str(candidates[i]) = match_str
                 /\ \A j \in (i + 1)..Len(candidates) : candidate_str(candidates[j]) # match_str
    IN  candidates[n]

\* the score extractOne gives a candidate string for a detected string:
\* scorer(processor(query), processor(choice)) with scorer=fuzz.token_sort_ratio
similarity(query, choice) == extractWithoutOrder(query, <<choice>>)[1][2]

\* the two thresholds exchanged
match_type_swapped(match_score) ==
    IF match_score >= matcher.review_threshold THEN "auto"
    ELSE IF match_score >= matcher.auto_threshold THEN "review"
    ELSE "new"

\* the decision for a score (match_component, "Determine match type")
match_type(match_score) ==
    IF match_score >= matcher.auto_threshold THEN "auto"
    ELSE IF match_score >= matcher.review_threshold THEN "review"
    ELSE "new"

\* the empty-pool result put in the review bucket
NoMatch_review == [component_id |-> None, match_score |-> 0, match_type |-> "review"]

\* return None, 0, 'new'
NoMatch == [component_id |-> None, match_score |-> 0, match_type |-> "new"]

\* ComponentMatcher.match_component, after the candidates are fetched
match_component(detected, candidates) ==
    IF candidates = << >> THEN NoMatch
    ELSE LET best_match == extractOne(detected_str(detected), candidate_keys(candidates))
         IN  IF best_match = None THEN NoMatch
             ELSE LET match_str == best_match[1][1]
                      match_score == best_match[1][2]
                      matched_component == candidate_dict(candidates, match_str)
                  IN  [component_id |-> Some(matched_component.component_id),
                       match_score  |-> match_score,
                       match_type   |-> match_type(match_score)]

\* the match_score written into the fetched row itself
rows_scored_in_place(detected, limit, candidates) ==
    LET matches == extract(detected_str(detected), candidate_keys(candidates), limit)
    IN  [i \in 1..Len(candidates) |->
            IF \E n \in 1..Len(matches) :
                   candidate_dict(candidates, matches[n][1]) = candidates[i]
            THEN [component |-> candidates[i], match_score |-> 0]
            ELSE candidates[i]]

\* the rows the provider returned, as they are when get_match_suggestions
\* returns: the score is set on a copy of the row (.copy())
rows_after_suggestions(detected, limit, candidates) == candidates

\* ComponentMatcher.get_match_suggestions, after the candidates are fetched:
\* copies of the matched rows with their match_score
get_match_suggestions(detected, limit, candidates) ==
    IF candidates = << >> THEN << >>
    ELSE LET matches == extract(detected_str(detected), candidate_keys(candidates), limit)
         IN  [n \in 1..Len(matches) |->
                 [component   |-> candidate_dict(candidates, matches[n][1]),
                  match_score |-> matches[n][2]]]

\* the comparison without .lower()
RECURSIVE first_exact_case_sensitive(_, _, _)
first_exact_case_sensitive(components, manufacturer, model_number) ==
    IF components = << >> THEN None
    ELSE IF /\ Head(components).manufacturer = manufacturer
            /\ Head(components).model_number = model_number
         THEN Some(Head(components))
         ELSE first_exact_case_sensitive(Tail(components), manufacturer, model_number)

\* ComponentMatcher.match_by_manufacturer_model, over the rows the search returned
RECURSIVE first_exact(_, _, _)
first_exact(components, manufacturer, model_number) ==
    IF components = << >> THEN None
    ELSE IF /\ Lower(Head(components).manufacturer) = Lower(manufacturer)
            /\ Lower(Head(components).model_number) = Lower(model_number)
         THEN Some(Head(components))
         ELSE first_exact(Tail(components), manufacturer, model_number)

\* every result gets suggestions, whatever its decision
needs_suggestions_always(decision) == TRUE

\* batch_match: if match_type in ['review', 'new']
needs_suggestions(decision) == decision \in {"review", "new"}

\* the body of the loop of batch_match for one detected item: candidates are
\* the rows match_component fetched, suggestion_candidates the rows
\* get_match_suggestions fetched (not fetched when no suggestions are needed)
batch_result(detected, candidates, suggestion_candidates) ==
    LET m == match_component(detected, candidates)
    IN  [detected             |-> detected,
         matched_component_id |-> m.component_id,
         match_score          |-> m.match_score,
         match_type           |-> m.match_type,
         suggestions          |-> IF needs_suggestions(m.match_type)
                                  THEN get_match_suggestions(detected, 3,
                                                             suggestion_candidates)
                                  ELSE << >>]

\* the result put in front of the list
insert_result_first(results, result) == <<result>> \o results

\* results.append(result)
append_result(results, result) == Append(results, result)

RECURSIVE SumScores(_)
SumScores(results) ==
    IF results = << >> THEN 0
    ELSE Head(results).match_score + SumScores(Tail(results))

\* a / b of two integers (true division), kept as the fraction
TrueDiv(a, b) == [num |-> a, den |-> b]

\* every result that is not auto counted as a new item
get_match_statistics_no_review(results) ==
    LET n == Len(results)
        Count(types) == Cardinality({i \in 1..n : results[i].match_type \in types})
    IN  [total          |-> n,
         auto_matched   |-> Count({"auto"}),
         needs_review   |-> 0,
         new_items      |-> n - Count({"auto"}),
         avg_confidence |-> IF n > 0 THEN TrueDiv(SumScores(results), n)
                            ELSE TrueDiv(0, 1)]

\* ComponentMatcher.get_match_statistics; avg_confidence stays the integer 0
\* for an empty list
get_match_statistics(results) ==
    LET n == Len(results)
        Count(types) == Cardinality({i \in 1..n : results[i].match_type \in types})
    IN  [total          |-> n,
         auto_matched   |-> Count({"auto"}),
         needs_review   |-> Count({"review"}),
         new_items      |-> n - Count({"auto", "review"}),
         avg_confidence |-> IF n > 0 THEN TrueDiv(SumScores(results), n)
                            ELSE TrueDiv(0, 1)]

(***************************************************************************)
(* Inputs of the operations.                                               *)
(***************************************************************************)
ComponentInputs ==
    { [itemname |-> <<"a">>, manufacturer |-> <<"b">>, model_number |-> <<"c">>,
       itclass |-> "MCB"],
      [itemname |-> <<"a">>, manufacturer |-> <<"B">>, model_number |-> <<"c">>,
       itclass |-> "MCB"],
      [itemname |-> <<"a">>, manufacturer |-> <<"b">>, model_number |-> << >>,
       itclass |-> "MCB"],
      [itemname |-> <<"A", "-", "b">>, manufacturer |-> <<"c">>, model_number |-> << >>,
       itclass |-> "MCB"],
      [itemname |-> <<"b", " ", "c">>, manufacturer |-> <<"B">>, model_number |-> <<"C">>,
       itclass |-> "OTHER"],
      [itemname |-> << >>, manufacturer |-> << >>, model_number |-> << >>,
       itclass |-> "OTHER"] }

DetectedInputs ==
    { [itemname |-> <<"a">>, manufacturer |-> <<"b">>, model_number |-> <<"c">>,
       itclass |-> "MCB"],
      [itemname |-> <<"a">>, manufacturer |-> <<"b", "c">>, itclass |-> "MCB"],
      [itemname |-> <<"c">>, itclass |-> "MCB"],
      [itemname |-> <<"b", " ", "c">>, manufacturer |-> <<"B">>, model_number |-> <<"C">>],
      [itemname |-> <<"a">>, manufacturer |-> <<"b">>, itclass |-> ""],
      [itemname |-> << >>] }

\* the lists of detected items given to batch_match
BatchInputs == UNION {[1..n -> DetectedInputs] : n \in 0..MaxBatch}

\* the elements of a set, each once, as a sequence
RECURSIVE SeqOfSet(_)
SeqOfSet(S) ==
    IF S = {} THEN << >>
    ELSE LET x == CHOOSE x \in S : TRUE
         IN  <<x>> \o SeqOfSet(S \ {x})

\* the component library after add_component of each element of inputs
Catalog(inputs) ==
    [i \in 1..Len(inputs) |->
        [component_id  |-> i,
         itemname      |-> inputs[i].itemname,
         manufacturer  |-> inputs[i].manufacturer,
         model_number  |-> inputs[i].model_number,
         itclass       |-> inputs[i].itclass,
         is_active     |-> TRUE,
         created_date  |-> i]]

\* the empty library, the libraries of one or two of the components of
\* ComponentInputs, the library of all of them, and the libraries that hold
\* one component twice
SeedCatalogs ==
    {Catalog(SeqOfSet(S)) :
        S \in {T \in SUBSET ComponentInputs : Cardinality(T) <= 2 \/ T = ComponentInputs}}
    \cup {Catalog(<<c, c>>) : c \in ComponentInputs}

\* the parts stock codes are made of
PartInputs ==
    { << >>, <<"M", "C", "B">>, <<"S", "C", "H">>, <<"A", "B", "B">>, <<"s", "i", "e">>,
      <<"3", "P">>, <<"6", "3", "A">>, <<"6", "A", "B">>, <<"G", "E", "A", "R">> }

\* "-".join(parts)
RECURSIVE JoinHyphen(_)
JoinHyphen(parts) ==
    IF Len(parts) = 1 THEN parts[1]
    ELSE parts[1] \o <<"-">> \o JoinHyphen(Tail(parts))

\* the stock codes: one to MaxParts parts, hyphen-delimited
StkcodeInputs == {JoinHyphen(parts) : parts \in UNION {[1..n -> PartInputs] : n \in 1..MaxParts}}

\* comparable strings given to the scorer
StringInputs ==
    { << >>, <<"b">>, <<"c">>, <<"a", "b">>, <<"a", " ", "b">>, <<"B", " ", "a">>,
      <<"b", "a", "b">>, <<"A", "-", "b">>, <<"a", " ", "b", " ", "c">>,
      <<"b", "a", "c", "b">> }

\* the configurations the matcher is constructed from: the shipped one, and
\* one edited so that the auto threshold is below the review threshold
ConfigInputs ==
    { estimator_config,
      [AUTO_MATCH_THRESHOLD |-> REVIEW_THRESHOLD,
       REVIEW_THRESHOLD     |-> AUTO_MATCH_THRESHOLD] }

\* the libraries the detections are matched against: the empty library, the
\* libraries of one component and the library of all of them
DetectionCatalogs ==
    {Catalog(SeqOfSet(S)) :
        S \in {T \in SUBSET ComponentInputs : Cardinality(T) <= 1 \/ T = ComponentInputs}}

\* the threads that share one matcher
Threads == {1, 2}

LimitInputs == {-1, 0, 1, 2, 5}

ManufacturerInputs == {<< >>, <<"b">>}

ModelNumberInputs == {<< >>, <<"C">>}

(***************************************************************************)
(* The state machine. The pages call the database and the matcher one      *)
(* operation at a time; last is the record of the call in progress, with   *)
(* its arguments, the provider queries it made and what it returns, and is *)
(* Idle between calls. No statement of get_match_suggestions raises for    *)
(* any limit, so its call record always has raised = FALSE.                *)
(***************************************************************************)
Idle == [op |-> "idle"]

\* the cursor of a new connection holds no result set; no thread is in a call
NoThreads == [t \in Threads |-> Idle]

Init ==
    /\ component_library = << >>
    /\ detected_components = << >>
    /\ last = Idle
    /\ matcher = ComponentMatcher(estimator_config)
    /\ cursor = << >>
    /\ threads = NoThreads
    /\ sosopiac = << >>

\* db.add_component(component_data) (component library page, ERP import)
AddComponent ==
    /\ last = Idle
    /\ Len(component_library) < MaxCatalog
    /\ \E component_data \in ComponentInputs :
           /\ component_library' = Append(component_library, add_component(component_data))
           /\ last' = [op |-> "add_component",
                       ret |-> add_component(component_data).component_id]
    /\ UNCHANGED <<detected_components, matcher, cursor, threads, sosopiac>>

\* matcher.match_component(detected)
MatchComponent ==
    /\ last = Idle
    /\ \E detected \in DetectedInputs :
           \E candidates \in get_all_components(Get(detected, "itclass", "OTHER")) :
               last' = [op |-> "match_component",
                        detected |-> detected,
                        queries |-> <<"get_all_components">>,
                        candidates |-> candidates,
                        ret |-> match_component(detected, candidates)]
    /\ UNCHANGED <<component_library, detected_components, matcher, cursor, threads, sosopiac>>

\* matcher.get_match_suggestions(detected, limit)
GetMatchSuggestions ==
    /\ last = Idle
    /\ \E detected \in DetectedInputs, limit \in LimitInputs :
           \E candidates \in get_all_components(Get(detected, "itclass", "OTHER")) :
               last' = [op |-> "get_match_suggestions",
                        detected |-> detected,
                        limit |-> limit,
                        queries |-> <<"get_all_components">>,
                        candidates |-> candidates,
                        raised |-> FALSE,
                        rows_after |-> rows_after_suggestions(detected, limit, candidates),
                        ret |-> get_match_suggestions(detected, limit, candidates)]
    /\ UNCHANGED <<component_library, detected_components, matcher, cursor, threads, sosopiac>>

\* the early return taken only when both keys are empty
missing_both_keys(manufacturer, model_number) == manufacturer = << >> /\ model_number = << >>

\* the early return of match_by_manufacturer_model
missing_key(manufacturer, model_number) == manufacturer = << >> \/ model_number = << >>

\* matcher.match_by_manufacturer_model(manufacturer, model_number)
MatchByManufacturerModel ==
    /\ last = Idle
    /\ \E manufacturer \in ManufacturerInputs, model_number \in ModelNumberInputs :
           IF missing_key(manufacturer, model_number)
           THEN last' = [op |-> "match_by_manufacturer_model",
                         manufacturer |-> manufacturer,
                         model_number |-> model_number,
                         queries |-> << >>,
                         components |-> << >>,
                         ret |-> None]
           ELSE \E fts \in SUBSET Rows :
                \E components \in search_components(
                                      manufacturer \o <<" ">> \o model_number, "", 10, fts) :
                    last' = [op |-> "match_by_manufacturer_model",
                             manufacturer |-> manufacturer,
                             model_number |-> model_number,
                             queries |-> <<"search_components">>,
                             components |-> components,
                             ret |-> first_exact(components, manufacturer, model_number)]
    /\ UNCHANGED <<component_library, detected_components, matcher, cursor, threads, sosopiac>>

\* the call returns to the page, which takes the result
Return ==
    /\ last # Idle
    /\ last.op = "batch_match" => last.finished
    /\ last' = Idle
    /\ UNCHANGED <<component_library, detected_components, matcher, cursor, threads, sosopiac>>

Next ==
    \/ AddComponent
    \/ MatchComponent
    \/ GetMatchSuggestions
    \/ MatchByManufacturerModel
    \/ Return

Spec == Init /\ [][Next]_vars

(***************************************************************************)
(* match_component of a matcher constructed from any of the configurations *)
(* in ConfigInputs, over a library that is filled beforehand. Neither      *)
(* EstimatorConfig nor ComponentMatcher.__init__ compares the thresholds.  *)
(***************************************************************************)
InitConfig ==
    /\ component_library \in SeedCatalogs
    /\ detected_components = << >>
    /\ last = Idle
    /\ matcher \in {ComponentMatcher(config) : config \in ConfigInputs}
    /\ cursor = << >>
    /\ threads = NoThreads
    /\ sosopiac = << >>

NextConfig ==
    \/ MatchComponent
    \/ Return

SpecConfig == InitConfig /\ [][NextConfig]_vars

(***************************************************************************)
(* match_component called from several threads on one matcher, over a      *)
(* library that is filled beforehand. The matcher holds one Database,      *)
(* which holds one cursor for all its queries: get_all_components runs     *)
(* cursor.execute and then cursor.fetchall, and another thread can run     *)
(* between the two. The cursor holds the rows of the last query executed   *)
(* that were not fetched yet; fetchall returns them and leaves none.       *)
(***************************************************************************)
InitThreads ==
    /\ component_library \in SeedCatalogs
    /\ detected_components = << >>
    /\ last = Idle
    /\ matcher = ComponentMatcher(estimator_config)
    /\ cursor = << >>
    /\ threads = NoThreads
    /\ sosopiac = << >>

\* match_component up to self.cursor.execute(query) in get_all_components
ThreadExecute ==
    \E t \in Threads :
        /\ threads[t] = Idle
        /\ \E detected \in DetectedInputs :
               /\ cursor' \in get_all_components(Get(detected, "itclass", "OTHER"))
               /\ threads' = [threads EXCEPT ![t] = [op |-> "match_component",
                                                     pc |-> "fetchall",
                                                     detected |-> detected]]
        /\ UNCHANGED <<component_library, detected_components, last, matcher, sosopiac>>

\* return self.cursor.fetchall(), and the rest of match_component
ThreadFetchAll ==
    \E t \in Threads :
        /\ threads[t] # Idle
        /\ threads[t].pc = "fetchall"
        /\ threads' = [threads EXCEPT ![t] =
                          [op |-> "match_component",
                           pc |-> "returned",
                           detected |-> threads[t].detected,
                           candidates |-> cursor,
                           ret |-> match_component(threads[t].detected, cursor)]]
        /\ cursor' = << >>
        /\ UNCHANGED <<component_library, detected_components, last, matcher, sosopiac>>

\* the caller takes the result
ThreadReturn ==
    \E t \in Threads :
        /\ threads[t] # Idle
        /\ threads[t].pc = "returned"
        /\ threads' = [threads EXCEPT ![t] = Idle]
        /\ UNCHANGED <<component_library, detected_components, last, matcher, cursor, sosopiac>>

NextThreads ==
    \/ ThreadExecute
    \/ ThreadFetchAll
    \/ ThreadReturn

SpecThreads == InitThreads /\ [][NextThreads]_vars

(***************************************************************************)
(* The similarity score as a function of two strings.                      *)
(***************************************************************************)
InitScore ==
    /\ component_library = << >>
    /\ detected_components = << >>
    /\ last \in {[op |-> "strings", query |-> s1, choice |-> s2] :
                    s1 \in StringInputs, s2 \in StringInputs}
    /\ matcher = ComponentMatcher(estimator_config)
    /\ cursor = << >>
    /\ threads = NoThreads
    /\ sosopiac = << >>

\* the score of the choice for the query
Score ==
    /\ last.op = "strings"
    /\ last' = [op |-> "similarity",
                query |-> last.query,
                choice |-> last.choice,
                ret |-> similarity(last.query, last.choice)]
    /\ UNCHANGED <<component_library, detected_components, matcher, cursor, threads, sosopiac>>

NextScore == Score

SpecScore == InitScore /\ [][NextScore]_vars

(***************************************************************************)
(* The detections of one project: the upload page saves each detected      *)
(* component and records its match, the review page applies a suggestion,  *)
(* creates a component for a detection, approves a match or approves all   *)
(* auto-matched detections. The library is filled beforehand. The review   *)
(* page names the tables estimator.*, database.py estimation.*: they are   *)
(* taken to be the same tables (if they are not, the statements of the     *)
(* review page fail and change nothing).                                   *)
(***************************************************************************)
InitDetections ==
    /\ component_library \in DetectionCatalogs
    /\ detected_components = << >>
    /\ last = Idle
    /\ matcher = ComponentMatcher(estimator_config)
    /\ cursor = << >>
    /\ threads = NoThreads
    /\ sosopiac = << >>

\* configurations of the thresholds: those of ConfigInputs and one with a
\* wider review band
DetectionConfigs ==
    ConfigInputs \cup {[AUTO_MATCH_THRESHOLD |-> 90, REVIEW_THRESHOLD |-> 60]}

\* the same with a matcher constructed from any configuration of DetectionConfigs
InitDetectionsConfig ==
    /\ component_library \in DetectionCatalogs
    /\ detected_components = << >>
    /\ last = Idle
    /\ matcher \in {ComponentMatcher(config) : config \in DetectionConfigs}
    /\ cursor = << >>
    /\ threads = NoThreads
    /\ sosopiac = << >>

\* upload page: detection_id = db.save_detected_component(..., component)
SaveDetectedComponent ==
    /\ last = Idle
    /\ Len(detected_components) < MaxDetections
    /\ \E component \in DetectedInputs :
           /\ detected_components' =
                  Append(detected_components, save_detected_component(component))
           /\ last' = [op |-> "save_detected_component",
                       detection_id |-> save_detected_component(component).detection_id,
                       component |-> component]
    /\ UNCHANGED <<component_library, matcher, cursor, threads, sosopiac>>

\* upload page: matcher.match_component(component), and
\* db.update_detection_match(detection_id, component_id, match_score)
\* if component_id
RecordMatch ==
    /\ last.op = "save_detected_component"
    /\ \E candidates \in get_all_components(Get(last.component, "itclass", "OTHER")) :
           LET m == match_component(last.component, candidates)
           IN  /\ detected_components' =
                      IF m.component_id # None
                      THEN update_detection_match(last.detection_id, m.component_id[1],
                                                  m.match_score, "auto")
                      ELSE detected_components
               /\ last' = [op |-> "record_match",
                           detection_id |-> last.detection_id,
                           updated |-> m.component_id # None,
                           ret |-> m]
    /\ UNCHANGED <<component_library, matcher, cursor, threads, sosopiac>>

\* review page, a detection without matched_component_id: one of
\* matcher.get_match_suggestions(detection, limit=5) is clicked
ApplySuggestion ==
    /\ last = Idle
    /\ \E i \in 1..Len(detected_components) :
           LET detection == detected_components[i]
           IN  /\ detection.matched_component_id = None
               /\ \E candidates \in get_all_components(detection.itclass) :
                      LET suggestions == get_match_suggestions(detection, 5, candidates)
                      IN  \E n \in 1..Len(suggestions) :
                              /\ detected_components' =
                                     update_detection_match(
                                         detection.detection_id,
                                         suggestions[n].component.component_id,
                                         suggestions[n].match_score, "manual")
                              /\ last' = [op |-> "apply_suggestion",
                                          detection_id |-> detection.detection_id,
                                          updated |-> TRUE]
    /\ UNCHANGED <<component_library, matcher, cursor, threads, sosopiac>>

\* review page, a detection without matched_component_id: Create & Match
CreateAndMatch ==
    /\ last = Idle
    /\ \E i \in 1..Len(detected_components) :
           LET detection == detected_components[i]
               component_data == [itemname     |-> detection.itemname,
                                  itclass      |-> detection.itclass,
                                  manufacturer |-> detection.manufacturer,
                                  model_number |-> detection.model_number]
           IN  /\ detection.matched_component_id = None
               /\ component_library' =
                      Append(component_library, add_component(component_data))
               /\ detected_components' =
                      update_detection_match(detection.detection_id,
                                             add_component(component_data).component_id,
                                             100, "manual")
               /\ last' = [op |-> "create_and_match",
                           detection_id |-> detection.detection_id,
                           updated |-> TRUE]
    /\ UNCHANGED <<matcher, cursor, threads, sosopiac>>

\* review page, a detection with a matched component and status review:
\* Approve Match
ApproveMatch ==
    /\ last = Idle
    /\ \E i \in 1..Len(detected_components) :
           LET detection == detected_components[i]
           IN  /\ detection.matched_component_id # None
               /\ \E r \in Rows : r.component_id = detection.matched_component_id[1]
               /\ detection.match_status = "review"
               /\ detected_components' = approve_match(detection.detection_id)
               /\ last' = [op |-> "approve_match",
                           detection_id |-> detection.detection_id]
    /\ UNCHANGED <<component_library, matcher, cursor, threads, sosopiac>>

\* review page, shown when the project has detections: Approve All Auto-Matched
ApproveAllAutoMatched ==
    /\ last = Idle
    /\ detected_components # << >>
    /\ detected_components' = approve_all_auto_matched
    /\ last' = [op |-> "approve_all_auto_matched",
                updated |-> auto_matched_in_review]
    /\ UNCHANGED <<component_library, matcher, cursor, threads, sosopiac>>

\* BOM page: the preview built from the matched detections; the page stops
\* when there is none
GenerateBom ==
    /\ last = Idle
    /\ LET matched_detections == get_detections_for_project(detected_components, "matched")
       IN  /\ matched_detections # << >>
           /\ last' = [op |-> "generate_bom",
                       read |-> [i \in 1..Len(matched_detections) |->
                                    matched_detections[i].matched_component_id],
                       bom_preview |-> bom_preview(matched_detections)]
    /\ UNCHANGED <<component_library, detected_components, matcher, cursor, threads, sosopiac>>

\* the page is done with the call
ReturnToPage ==
    /\ last # Idle
    /\ last.op # "save_detected_component"
    /\ last' = Idle
    /\ UNCHANGED <<component_library, detected_components, matcher, cursor, threads, sosopiac>>

NextDetections ==
    \/ SaveDetectedComponent
    \/ RecordMatch
    \/ ApplySuggestion
    \/ CreateAndMatch
    \/ ApproveMatch
    \/ ApproveAllAutoMatched
    \/ GenerateBom
    \/ ReturnToPage

SpecDetections == InitDetections /\ [][NextDetections]_vars

SpecDetectionsConfig == InitDetectionsConfig /\ [][NextDetections]_vars

(***************************************************************************)
(* The stock code parser as a function of the stock code. No statement of  *)
(* it raises for any string.                                               *)
(***************************************************************************)
InitNormalize ==
    /\ component_library = << >>
    /\ detected_components = << >>
    /\ last \in {[op |-> "stkcode", stkcode |-> stkcode] : stkcode \in StkcodeInputs}
    /\ matcher = ComponentMatcher(estimator_config)
    /\ cursor = << >>
    /\ threads = NoThreads
    /\ sosopiac = << >>

Normalize ==
    /\ last.op = "stkcode"
    /\ last' = [op |-> "normalize",
                stkcode |-> last.stkcode,
                raised |-> FALSE,
                ret |-> normalize(last.stkcode)]
    /\ UNCHANGED <<component_library, detected_components, matcher, cursor, threads, sosopiac>>

NextNormalize == Normalize

SpecNormalize == InitNormalize /\ [][NextNormalize]_vars

(***************************************************************************)
(* The import of the stock items from the ERP table, which does not change *)
(* between the runs, into a library that starts empty. A run either fails  *)
(* to connect to the ERP database or to query it and returns 0, or goes    *)
(* through the rows of the query; the statements on the library are taken  *)
(* to succeed.                                                             *)
(***************************************************************************)

\* rows of smbe.sosopiac: two stock codes, one of them on two dates and the
\* other also without a price, an empty stock code and a NULL one
ErpRowInputs ==
    { [stkcode |-> Some(<<"M", "C", "B", "-", "S", "C", "H">>), unitprc |-> 5, NDATE |-> 1],
      [stkcode |-> Some(<<"M", "C", "B", "-", "S", "C", "H">>), unitprc |-> 5, NDATE |-> 2],
      [stkcode |-> Some(<<"A", "B", "B">>), unitprc |-> 5, NDATE |-> 1],
      [stkcode |-> Some(<<"A", "B", "B">>), unitprc |-> 0, NDATE |-> 1],
      [stkcode |-> Some(<< >>), unitprc |-> 5, NDATE |-> 1],
      [stkcode |-> None, unitprc |-> 5, NDATE |-> 1] }

\* limit of the import page: import all, or the number entered
ImportLimits == {None, Some(0), Some(1)}

InitImport ==
    /\ component_library = << >>
    /\ detected_components = << >>
    /\ last = Idle
    /\ matcher = ComponentMatcher(estimator_config)
    /\ cursor = << >>
    /\ threads = NoThreads
    /\ sosopiac \in UNION {[1..n -> ErpRowInputs] : n \in 0..MaxErpRows}

\* db.import_stock_items_from_erp(limit=limit); the run before it, if the
\* page has not been left since, is kept in the record of the call
ImportStockItems ==
    /\ last = Idle \/ (last.op = "import_stock_items_from_erp" /\ last.previous = Idle)
    /\ \E limit \in ImportLimits :
           \/ /\ last' = [op |-> "import_stock_items_from_erp",
                           limit |-> limit,
                           connected |-> FALSE,
                           rows_before |-> Len(component_library),
                           ret |-> 0,
                           previous |-> last]
              /\ UNCHANGED component_library
           \/ \E rows \in erp_query(limit) :
                  LET done == import_rows(rows, component_library, 0)
                  IN  /\ component_library' = done.library
                      /\ last' = [op |-> "import_stock_items_from_erp",
                                  limit |-> limit,
                                  connected |-> TRUE,
                                  rows_before |-> Len(component_library),
                                  ret |-> done.imported,
                                  previous |-> last]
    /\ UNCHANGED <<detected_components, matcher, cursor, threads, sosopiac>>

NextImport ==
    \/ ImportStockItems
    \/ Return

SpecImport == InitImport /\ [][NextImport]_vars

(***************************************************************************)
(* batch_match, one detected item at a time, over a library that is filled *)
(* beforehand. results is the local list of the call and ret is what the   *)
(* caller receives.                                                        *)
(* The only statements of the loop that can raise are the provider queries *)
(* of match_component and get_match_suggestions, and batch_match catches   *)
(* nothing: the exception leaves the call and the local list is dropped.   *)
(***************************************************************************)
InitBatch ==
    /\ component_library \in SeedCatalogs
    /\ detected_components = << >>
    /\ last = Idle
    /\ matcher = ComponentMatcher(estimator_config)
    /\ cursor = << >>
    /\ threads = NoThreads
    /\ sosopiac = << >>

InBatch == last.op = "batch_match"

\* matcher.batch_match(detected_components): results = []
BatchMatch ==
    /\ last = Idle
    /\ \E items \in BatchInputs :
           last' = [op |-> "batch_match",
                    detected_components |-> items,
                    results |-> << >>,
                    finished |-> FALSE,
                    raised |-> FALSE,
                    failed_item |-> 0,
                    ret |-> None]
    /\ UNCHANGED <<component_library, detected_components, matcher, cursor, threads, sosopiac>>

\* one iteration of the loop
BatchItem ==
    /\ InBatch
    /\ ~last.finished
    /\ Len(last.results) < Len(last.detected_components)
    /\ LET detected == last.detected_components[Len(last.results) + 1]
           itclass == Get(detected, "itclass", "OTHER")
       IN  \E candidates \in get_all_components(itclass) :
               IF needs_suggestions(match_component(detected, candidates).match_type)
               THEN \E suggestion_candidates \in get_all_components(itclass) :
                        last' = [last EXCEPT
                                   !.results = append_result(@,
                                       batch_result(detected, candidates,
                                                    suggestion_candidates))]
               ELSE last' = [last EXCEPT
                               !.results = append_result(@,
                                   batch_result(detected, candidates, << >>))]
    /\ UNCHANGED <<component_library, detected_components, matcher, cursor, threads, sosopiac>>

\* a provider query of the iteration raises
BatchFail ==
    /\ InBatch
    /\ ~last.finished
    /\ Len(last.results) < Len(last.detected_components)
    /\ last' = [last EXCEPT !.finished = TRUE,
                            !.raised = TRUE,
                            !.failed_item = Len(last.results) + 1]
    /\ UNCHANGED <<component_library, detected_components, matcher, cursor, threads, sosopiac>>

\* return results
BatchReturn ==
    /\ InBatch
    /\ ~last.finished
    /\ Len(last.results) = Len(last.detected_components)
    /\ last' = [last EXCEPT !.finished = TRUE, !.ret = Some(last.results)]
    /\ UNCHANGED <<component_library, detected_components, matcher, cursor, threads, sosopiac>>

\* matcher.get_match_statistics(results), on the results of a batch_match
GetMatchStatistics ==
    /\ InBatch
    /\ last.finished
    /\ ~last.raised
    /\ last' = [op |-> "get_match_statistics",
                results |-> last.ret[1],
                ret |-> get_match_statistics(last.ret[1])]
    /\ UNCHANGED <<component_library, detected_components, matcher, cursor, threads, sosopiac>>

NextBatch ==
    \/ BatchMatch
    \/ BatchItem
    \/ BatchFail
    \/ BatchReturn
    \/ GetMatchStatistics
    \/ Return

SpecBatch == InitBatch /\ [][NextBatch]_vars

(***************************************************************************)
(* Properties.                                                             *)
(***************************************************************************)
InMatch == last.op = "match_component"

InSuggest == last.op = "get_match_suggestions"

InLookup == last.op = "match_by_manufacturer_model"

\* the score of one candidate against the detected item
score_of(detected, candidate) ==
    extractWithoutOrder(detected_str(detected), <<candidate_str(candidate)>>)[1][2]

\* the position of the row with this id in the fetched candidates
PositionOf(candidates, component_id) ==
    CHOOSE i \in 1..Len(candidates) : candidates[i].component_id = component_id

\* C1: the decision of match is auto iff score >= AUTO_THRESHOLD, review iff
\* REVIEW_THRESHOLD <= score < AUTO_THRESHOLD, and new otherwise.
C1_DecisionByThreshold ==
    InMatch =>
        LET s == last.ret.match_score
            d == last.ret.match_type
        IN  /\ d \in {"auto", "review", "new"}
            /\ d = "auto" <=> s >= 85
            /\ d = "review" <=> (70 <= s /\ s < 85)
            /\ d = "new" <=> s < 70

C1_Witness ==
    /\ InMatch
    /\ last.candidates # << >>
    /\ last.ret.match_type = "review"
    /\ last.ret.match_score = 75

\* C2: match on an item whose candidate pool is empty returns no matched id,
\* score 0 and decision new.
C2_EmptyPoolIsNew ==
    (InMatch /\ last.candidates = << >>) =>
        /\ last.ret.component_id = None
        /\ last.ret.match_score = 0
        /\ last.ret.match_type = "new"

C2_Witness ==
    /\ InMatch
    /\ last.candidates = << >>
    /\ component_library # << >>
    /\ last.ret.match_type = "new"

\* C3: for a non-empty pool, match returns the id and score of the first
\* candidate, in retrieval order, that has the maximum score over the pool.
C3_FirstBestCandidate ==
    (InMatch /\ last.candidates # << >>) =>
        LET c == last.candidates
            n == CHOOSE i \in 1..Len(c) :
                     /\ \A j \in 1..Len(c) :
                            score_of(last.detected, c[j]) <= score_of(last.detected, c[i])
                     /\ \A j \in 1..(i - 1) :
                            score_of(last.detected, c[j]) < score_of(last.detected, c[i])
        IN  /\ last.ret.component_id = Some(c[n].component_id)
            /\ last.ret.match_score = score_of(last.detected, c[n])

\* C4: a result whose decision is new carries no matched id; a matched id is
\* present only for auto and review decisions.
C4_NewHasNoId ==
    InMatch =>
        /\ last.ret.match_type = "new" => last.ret.component_id = None
        /\ last.ret.component_id # None => last.ret.match_type \in {"auto", "review"}

\* what the scorer compares: lower-cased, punctuation blanked, tokens sorted
Normalized(str) == process_and_sort(full_process(str))

\* some fetched candidate has exactly the detected item's comparable string
HasIdenticalCandidate ==
    /\ detected_str(last.detected) # << >>
    /\ \E i \in 1..Len(last.candidates) :
           candidate_str(last.candidates[i]) = detected_str(last.detected)

Min(a, b) == IF a < b THEN a ELSE b

\* C6: for a positive limit, suggest returns exactly min(limit, size of the
\* pool) entries, and every candidate when the pool is smaller than limit.
C6_SuggestionCount ==
    (InSuggest /\ last.limit >= 1) =>
        /\ Len(last.ret) = Min(last.limit, Len(last.candidates))
        /\ Len(last.candidates) < last.limit =>
               \A i \in 1..Len(last.candidates) :
                   \E n \in 1..Len(last.ret) :
                       last.ret[n].component.component_id = last.candidates[i].component_id

\* C7: the suggestions are sorted by non-increasing score, and entries with
\* equal scores appear in candidate retrieval order.
C7_SuggestionOrder ==
    InSuggest =>
        \A m, n \in 1..Len(last.ret) :
            m < n =>
                /\ last.ret[m].match_score >= last.ret[n].match_score
                /\ last.ret[m].match_score = last.ret[n].match_score =>
                       PositionOf(last.candidates, last.ret[m].component.component_id)
                           < PositionOf(last.candidates, last.ret[n].component.component_id)

\* C8: suggest with a non-positive limit is rejected; it never returns a list.
C8_NonPositiveLimitRejected ==
    (InSuggest /\ last.limit <= 0) => last.raised

EqualIgnoringCase(s, t) ==
    /\ Len(s) = Len(t)
    /\ \A i \in 1..Len(s) : LowerChar(s[i]) = LowerChar(t[i])

\* C9: exact_lookup with an empty manufacturer or model number returns none
\* and makes no query to the candidate provider.
C9_EmptyKeyNoQuery ==
    (InLookup /\ (last.manufacturer = << >> \/ last.model_number = << >>)) =>
        /\ last.ret = None
        /\ last.queries = << >>

C9_Witness ==
    /\ InLookup
    /\ last.manufacturer # << >>
    /\ last.model_number = << >>
    /\ \E r \in Rows : EqualIgnoringCase(r.manufacturer, last.manufacturer)
    /\ last.ret = None

\* C10: for non-empty inputs, exact_lookup returns the first row, in the order
\* the search returned them, whose manufacturer and model number equal the
\* inputs ignoring case, and none when no returned row does.
C10_FirstExactRow ==
    (InLookup /\ last.manufacturer # << >> /\ last.model_number # << >>) =>
        LET exact == {i \in 1..Len(last.components) :
                         /\ EqualIgnoringCase(last.components[i].manufacturer,
                                              last.manufacturer)
                         /\ EqualIgnoringCase(last.components[i].model_number,
                                              last.model_number)}
        IN  IF exact = {} THEN last.ret = None
            ELSE \E i \in exact :
                     /\ \A j \in exact : i <= j
                     /\ last.ret = Some(last.components[i])

C10_Witness ==
    /\ InLookup
    /\ Len(last.components) >= 3
    /\ last.ret = Some(last.components[2])
    /\ last.components[2].manufacturer # last.manufacturer
    /\ EqualIgnoringCase(last.components[3].manufacturer, last.manufacturer)
    /\ EqualIgnoringCase(last.components[3].model_number, last.model_number)

\* the rows of the class of a detected item that the provider holds
PoolOf(detected) ==
    LET fetched == CHOOSE c \in get_all_components(Get(detected, "itclass", "OTHER")) : TRUE
    IN  {fetched[i] : i \in 1..Len(fetched)}

\* C11: in every result of batch_match, suggestions is empty when the decision
\* is auto; when it is review or new it holds at most 3 entries, which are the
\* top suggestions for the item: rows of its pool with their scores, best
\* first, and no description of the pool left out scores above the last entry.
C11_BatchSuggestions ==
    InBatch =>
        \A i \in 1..Len(last.results) :
            LET r == last.results[i]
                sugg == r.suggestions
                pool == PoolOf(r.detected)
            IN  /\ r.match_type = "auto" => sugg = << >>
                /\ r.match_type \in {"review", "new"} =>
                       /\ Len(sugg) <= 3
                       /\ \A n \in 1..Len(sugg) :
                              /\ sugg[n].component \in pool
                              /\ sugg[n].match_score = score_of(r.detected, sugg[n].component)
                              /\ n > 1 => sugg[n - 1].match_score >= sugg[n].match_score
                       /\ \A c \in pool :
                              \/ \E n \in 1..Len(sugg) :
                                     candidate_str(sugg[n].component) = candidate_str(c)
                              \/ /\ Len(sugg) = 3
                                 /\ score_of(r.detected, c) <= sugg[3].match_score

C11_Witness ==
    /\ InBatch
    /\ last.finished
    /\ Len(last.results) = 2
    /\ last.results[1].match_type = "auto"
    /\ last.results[1].suggestions = << >>
    /\ last.results[2].match_type = "new"
    /\ Len(last.results[2].suggestions) = 3
    /\ Cardinality(PoolOf(last.results[2].detected)) > 3

\* C12: batch_match returns exactly one result per input item, in input order:
\* the i-th result carries the i-th detected item with the id, score and
\* decision that match_component returns for that item.
C12_OneResultPerItem ==
    (InBatch /\ last.finished /\ ~last.raised) =>
        /\ last.ret # None
        /\ Len(last.ret[1]) = Len(last.detected_components)
        /\ \A i \in 1..Len(last.detected_components) :
               LET r == last.ret[1][i]
                   detected == last.detected_components[i]
               IN  /\ r.detected = detected
                   /\ \E candidates \in
                              get_all_components(Get(detected, "itclass", "OTHER")) :
                          LET m == match_component(detected, candidates)
                          IN  /\ r.matched_component_id = m.component_id
                              /\ r.match_score = m.match_score
                              /\ r.match_type = m.match_type

C12_Witness ==
    /\ InBatch
    /\ last.finished
    /\ ~last.raised
    /\ Len(last.ret[1]) = 2
    /\ last.detected_components[1] # last.detected_components[2]
    /\ last.ret[1][1].match_type = "new"
    /\ last.ret[1][1].matched_component_id # None
    /\ last.ret[1][2].match_type = "auto"

InStatistics == last.op = "get_match_statistics"

\* C13: get_match_statistics reports the number of results in each decision
\* bucket, the counts summing to the total, and the arithmetic mean of the
\* scores; for an empty list every count and the mean are 0.
C13_Statistics ==
    InStatistics =>
        LET results == last.results
            stats == last.ret
            n == Len(results)
            InBucket(t) == {i \in 1..n : results[i].match_type = t}
        IN  /\ stats.total = n
            /\ stats.auto_matched = Cardinality(InBucket("auto"))
            /\ stats.needs_review = Cardinality(InBucket("review"))
            /\ stats.new_items = Cardinality(InBucket("new"))
            /\ stats.auto_matched + stats.needs_review + stats.new_items = stats.total
            /\ stats.avg_confidence.den > 0
            /\ stats.avg_confidence.num * n = SumScores(results) * stats.avg_confidence.den
            /\ n = 0 => stats.avg_confidence.num = 0

C13_Witness ==
    /\ InStatistics
    /\ last.ret.total = 2
    /\ last.ret.auto_matched = 1
    /\ last.ret.needs_review = 1
    /\ last.ret.avg_confidence.num > 0

\* C14: when a failure occurs while batch_match processes one item, the
\* results of the other items are not lost: the caller receives a result for
\* every item but the failing one.
C14_OtherResultsKept ==
    (InBatch /\ last.raised) =>
        \A j \in 1..Len(last.detected_components) :
            j # last.failed_item =>
                /\ last.ret # None
                /\ \E k \in 1..Len(last.ret[1]) :
                       last.ret[1][k].detected = last.detected_components[j]

\* C15: when the auto threshold is below the review threshold the matcher
\* refuses to produce decisions: no match_component call returns one.
C15_InconsistentThresholdsRefused ==
    matcher.auto_threshold < matcher.review_threshold =>
        ~(InMatch /\ last.ret.match_type \in {"auto", "review", "new"})

C18_ThreadSafeMatch ==
    \A t \in Threads :
        (threads[t] # Idle /\ threads[t].pc = "returned") =>
            /\ threads[t].candidates \in
                   get_all_components(Get(threads[t].detected, "itclass", "OTHER"))
            /\ threads[t].ret = match_component(threads[t].detected, threads[t].candidates)

\* C19: the similarity score is symmetric: exchanging the two strings gives
\* the same score.
C19_ScoreSymmetric ==
    last.op = "similarity" => last.ret = similarity(last.choice, last.query)

\* C20: an empty description scored against an empty description yields 0:
\* a detected item whose comparable string is empty is never matched with a
\* positive score, and never auto-matched, to a candidate whose comparable
\* string is empty too.
C20_EmptyNeverAuto ==
    (InMatch /\ detected_str(last.detected) = << >>) =>
        \A i \in 1..Len(last.candidates) :
            (/\ candidate_str(last.candidates[i]) = << >>
             /\ last.ret.component_id = Some(last.candidates[i].component_id)) =>
                /\ last.ret.match_score = 0
                /\ last.ret.match_type # "auto"

InNormalize == last.op = "normalize"

\* C21: the class is the first hyphen-delimited segment of the stock code, and
\* OTHER when the stock code contains no hyphen.
C21_ClassIsFirstSegment ==
    InNormalize =>
        IF \E i \in 1..Len(last.stkcode) : last.stkcode[i] = "-"
        THEN LET h == CHOOSE i \in 1..Len(last.stkcode) :
                          /\ last.stkcode[i] = "-"
                          /\ \A j \in 1..(i - 1) : last.stkcode[j] # "-"
             IN  last.ret.itclass = SubSeq(last.stkcode, 1, h - 1)
        ELSE last.ret.itclass = OTHER_CLASS

\* C22: the manufacturer is given by the first part of the stock code, in part
\* order, in which an entry of the alias table is found: abbreviations give
\* their canonical name, and it is Unknown when no part has one.
C22_FirstManufacturerWins ==
    InNormalize =>
        LET parts == SplitOn(last.stkcode, "-")
            matching == {i \in 1..Len(parts) : part_manufacturer(parts[i]) # None}
        IN  IF matching = {} THEN last.ret.manufacturer = Unknown
            ELSE LET i == CHOOSE i \in matching : \A k \in matching : i <= k
                 IN  last.ret.manufacturer = part_manufacturer(parts[i])[1]

\* C23: the rating is the space-joined list, in encounter order, of exactly
\* the parts that are an integer followed by A, V or P, and is empty when no
\* part has that form.
C23_RatingParts ==
    InNormalize =>
        LET parts == SplitOn(last.stkcode, "-")
            IsRating(part) == re_fullmatch_rating(part, {"A", "V", "P"})
        IN  last.ret.rating = Join(SelectSeq(parts, IsRating))

C26_MatchSuggestAgree ==
    (InSuggest /\ last.limit >= 1 /\ last.candidates # << >>) =>
        LET m == match_component(last.detected, last.candidates)
        IN  /\ Len(last.ret) >= 1
            /\ m.component_id = Some(last.ret[1].component.component_id)
            /\ m.match_score = last.ret[1].match_score

C26_Witness ==
    /\ InSuggest
    /\ last.limit >= 2
    /\ Len(last.ret) >= 2
    /\ last.ret[1].match_score = last.ret[2].match_score
    /\ last.ret[1].match_score >= 70
    /\ match_component(last.detected, last.candidates).component_id
           = Some(last.ret[1].component.component_id)

(***************************************************************************)
(* The detections table.                                                   *)
(***************************************************************************)
Detections == {detected_components[i] : i \in 1..Len(detected_components)}

DetectionById(detection_id) ==
    CHOOSE d \in Detections : d.detection_id = detection_id

\* the status the lifecycle names for a decision
StatusOfDecision(decision) ==
    CASE decision = "auto"   -> "matched"
      [] decision = "review" -> "review"
      [] decision = "new"    -> "new"

\* C25: when the match of a detection has been recorded at upload, the stored
\* status of the detection is the one that corresponds to the decision:
\* matched for auto, review for review, new for new.
C25_StatusFollowsDecision ==
    last.op = "record_match" =>
        DetectionById(last.detection_id).match_status
            = StatusOfDecision(last.ret.match_type)

\* the status update_detection_match stores, by the decision of the matcher
StoredStatusOfDecision(decision) ==
    CASE decision = "auto"   -> "matched"
      [] decision = "review" -> "review"
      [] decision = "new"    -> "pending"

\* the detection of the last call was written by update_detection_match
StoredByUpdate ==
    /\ last # Idle
    /\ last.op \in {"record_match", "apply_suggestion", "create_and_match"}
    /\ last.updated

\* C27: the status update_detection_match has stored for a score is the one
\* that corresponds to the decision of the matcher for the same score, for
\* whatever thresholds the matcher has read from the configuration.
C27_StatusMatchesDecision ==
    StoredByUpdate =>
        LET d == DetectionById(last.detection_id)
        IN  d.match_status = StoredStatusOfDecision(match_type(d.match_score[1]))

\* C28: every detection whose status is matched or review has a matched
\* component id, and the BOM preview reads no matched detection without one:
\* every matched detection it read had its component id set.
C28_MatchedHasComponent ==
    /\ \A d \in Detections :
           d.match_status \in {"matched", "review"} => d.matched_component_id # None
    /\ (last # Idle /\ last.op = "generate_bom") =>
           \A i \in 1..Len(last.read) : last.read[i] # None

\* the BOM preview has been built while a detection approved by hand and a
\* detection in review are in the table
C28_Witness ==
    /\ last # Idle
    /\ last.op = "generate_bom"
    /\ Len(last.read) >= 1
    /\ \E d \in Detections : d.match_status = "review"
    /\ \E d \in Detections : d.match_status = "matched" /\ d.match_score[1] < 85

\* C29: every detection whose status is review has a stored score s with
\* 70 <= s < 85, and Approve All Auto-Matched changes the status of no
\* detection.
C29_ReviewScoreRange ==
    /\ \A d \in Detections :
           d.match_status = "review" =>
               /\ d.match_score # None
               /\ 70 <= d.match_score[1]
               /\ d.match_score[1] < 85
    /\ (last # Idle /\ last.op = "approve_all_auto_matched") => last.updated = {}

\* Approve All Auto-Matched has run over a table that holds a detection in
\* review
C29_Witness ==
    /\ last # Idle
    /\ last.op = "approve_all_auto_matched"
    /\ \E d \in Detections : d.match_status = "review"

(***************************************************************************)
(* The import of the stock items.                                          *)
(***************************************************************************)

\* the last call is a second run of the import with the limit of the first
\* run, which went through its rows
SecondImport ==
    /\ last # Idle
    /\ last.op = "import_stock_items_from_erp"
    /\ last.previous # Idle
    /\ last.previous.connected
    /\ last.previous.limit = last.limit

\* C30: a second run of import_stock_items_from_erp against the unchanged ERP
\* table, after a first run whose inserts succeeded, adds no record to the
\* library and returns 0, and no two active imported records of the library
\* have the same supplier code.
C30_ImportIdempotent ==
    /\ SecondImport => /\ last.ret = 0
                       /\ Len(component_library) = last.rows_before
    /\ \A i, j \in 1..Len(component_library) :
           /\ i # j
           /\ component_library[i].is_active
           /\ component_library[j].is_active
           /\ component_library[i].source = "imported"
           /\ component_library[j].source = "imported"
           => component_library[i].supplier_code # component_library[j].supplier_code

====
